---- MODULE Spec2Model ----
(***************************************************************************)
(* send-to-computer: the resilient client Socket (frontend/socket.ts), the *)
(* StcApp login handshake (frontend/main.ts) and the node websocket server *)
(* (websocket.js), modelled as state machines.                             *)
(*                                                                         *)
(* Client: every WebSocket the Socket wrapper ever created keeps its four  *)
(* listeners, so the events of abandoned sockets still run the handlers.   *)
(* One action is one browser task together with the microtasks it queues   *)
(* (the continuation of an awaiting send runs in the microtask checkpoint  *)
(* of the task that resolved the promise).                                 *)
(*                                                                         *)
(* Views: the tag list of a message row (components/tag-list.ts) with the  *)
(* listeners its events meet, and the displayed conversation of StcApp.    *)
(***************************************************************************)
EXTENDS Integers, Sequences, FiniteSets, TLC

\* ---------------------------------------------------------------- bounds
MaxSockets == 4      \* WebSockets the client creates in one run
MaxTimers == 2       \* retry timers pending at the same time
MaxSends == 4        \* Socket.send calls in one run
MaxRetry == 16       \* cap of connectionRetry (seconds)
MaxConns == 2        \* connections the server accepts in one run
MaxReq == 2          \* "username" requests the server receives in one run
MaxOps == 2          \* message and group requests the server receives in one run
MaxTasks == 2        \* message handlers suspended at an await at the same time
MaxLen == 4          \* characters of the text in the tag input
MaxShown == 2        \* messages the displayed conversation holds

\* ------------------------------------------------------------- constants
BaseRetry == 2
NoName == "none"
Names == {"ann", "bob"}

VARIABLES
  \* --- client: Socket
  ws,               \* readyState of every WebSocket created so far
  inflight,         \* per WebSocket: requests transmitted, not yet answered
  socket,           \* this.socket (0 = null)
  nws,              \* number of WebSockets created
  connectionRetry,  \* this.connectionRetry
  retryPromise,     \* this.retryPromise (0 = null, else the promise)
  retryResolve,     \* this.retryResolve (0 = null, else the promise it resolves)
  waiters,          \* send calls suspended in `await this.reconnect()`
  timers,           \* number of pending setTimeout callbacks
  \* --- client: StcApp
  username, loginQueued, loggedIn, connected,
  \* --- client: history
  nsend,            \* number of Socket.send calls so far
  attempts,         \* per send call: number of this.socket.send attempts
  lost,             \* send calls whose transmit threw or was discarded
  sched,            \* the retries scheduled by the closes since the last open
  wasOpen,          \* the WebSockets that have opened
  reclaimDue        \* cached username at the last close since the last open

cvars == <<ws, inflight, socket, nws, connectionRetry, retryPromise,
           retryResolve, waiters, timers, username, loginQueued, loggedIn,
           connected, nsend, attempts, lost, sched, wasOpen, reclaimDue>>

VARIABLES
  \* --- server
  conn,             \* per connection: NEW, or the readyState of its WebSocket
  connName,         \* conn.username
  dbUsers,          \* db.users: the records' usernames, _id = position
  dbGroups,         \* db.groups: the records, _id = position; a removed
                    \* record keeps its position with live = FALSE
  dbMessages,       \* db.messages: the records, _id = position, likewise
  tasks,            \* the message handlers suspended at an await
  sent,             \* the frames the last step sent, in order: [to, ev]
  nreq,             \* number of "username" requests received
  nops,             \* number of message and group requests received
  lastReq           \* history: the connection and name of the last claim

svars == <<conn, connName, dbUsers, dbGroups, dbMessages, tasks, sent, nreq,
           nops, lastReq>>

VARIABLES
  \* --- client: StcApp, the displayed conversation
  userId,           \* this.userId (0 = null)
  currentRecipient, \* this.currentRecipient
  messages,         \* this.messages
  \* --- client: the tag list of a displayed message
  row,              \* the message row: the id of its message and canEdit
  value,            \* the text of the tag input
  detail,           \* the tags-changed event tag-list dispatched last: its
                    \* tags, and the text they were computed from
  requests          \* the requests editTags handed to Socket.send

uvars == <<userId, currentRecipient, messages, row, value, detail, requests>>

vars == <<cvars, svars, uvars>>

Sockets == 1..MaxSockets
SendIds == 1..MaxSends

\* ------------------------------------------------------- client: Socket
RequestUsername(name) == [type |-> "RequestUsername", username |-> name]
GetMessages == [type |-> "GetMessages", username |-> NoName]

\* readyState === WebSocket.OPEN of this.socket, over the readyStates st
IsOpen(st) == socket # 0 /\ st[socket] = "OPEN"

\* mutant: reconnect() without the check of retryPromise
AlreadyConnecting_off == FALSE

\* reconnect(): "we're already attempting to connect"
AlreadyConnecting == retryPromise # 0

\* try { this.socket?.close() } catch {}
ForceClose(st) ==
  IF socket # 0 /\ st[socket] \in {"CONNECTING", "OPEN"}
  THEN [st EXCEPT ![socket] = "CLOSING"]
  ELSE st

\* WebSocket.send(data) on a socket in readyState s: queued on an OPEN
\* socket, InvalidStateError while CONNECTING, discarded when CLOSING/CLOSED
Transmit(q, msgs, s) == IF s = "OPEN" THEN q \o msgs ELSE q

\* async send(message), called with the readyStates st
Send(m, st) ==
  /\ nsend < MaxSends
  /\ nsend' = nsend + 1
  /\ IF IsOpen(st)
     THEN \* reconnect() returns Promise.resolve(): transmit in this task
          /\ ws' = st
          /\ inflight' = [inflight EXCEPT ![socket] = Transmit(@, <<m>>, st[socket])]
          /\ attempts' = [attempts EXCEPT ![nsend + 1] = @ + 1]
          /\ UNCHANGED <<socket, nws, retryPromise, retryResolve, waiters, lost>>
     ELSE IF AlreadyConnecting
     THEN /\ ws' = st
          /\ waiters' = Append(waiters, [p |-> retryPromise, id |-> nsend + 1, m |-> m])
          /\ UNCHANGED <<inflight, attempts, lost, socket, nws, retryPromise, retryResolve>>
     ELSE /\ nws < MaxSockets
          /\ ws' = [ForceClose(st) EXCEPT ![nws + 1] = "CONNECTING"]
          /\ socket' = nws + 1
          /\ nws' = nws + 1
          /\ retryPromise' = nws + 1
          /\ retryResolve' = nws + 1
          /\ waiters' = Append(waiters, [p |-> nws + 1, id |-> nsend + 1, m |-> m])
          /\ UNCHANGED <<inflight, attempts, lost>>

NoSend(st) ==
  /\ ws' = st
  /\ UNCHANGED <<inflight, socket, nws, retryPromise, retryResolve, waiters,
                 nsend, attempts, lost>>

\* -------------------------------------------------------- client: StcApp
\* StcApp.login(), with this.username = name
login(st, name) ==
  IF loginQueued
  THEN NoSend(st) /\ UNCHANGED loginQueued
  ELSE loginQueued' = TRUE /\ Send(RequestUsername(name), st)

\* StcApp.loginSubmit: the form is rendered only while not logged in
loginSubmit(name) ==
  /\ UNCHANGED <<svars, uvars>>
  /\ ~loggedIn
  /\ username' = name
  /\ login(ws, name)
  /\ UNCHANGED <<connectionRetry, timers, loggedIn, connected, sched, wasOpen,
                 reclaimDue>>

\* StcApp.showRecepientMessages: the side bar is rendered only when logged in
showRecepientMessages ==
  /\ UNCHANGED <<svars, uvars>>
  /\ loggedIn
  /\ Send(GetMessages, ws)
  /\ UNCHANGED <<connectionRetry, timers, username, loginQueued, loggedIn,
                 connected, sched, wasOpen, reclaimDue>>

\* the timer without its early return
TimerSkips_never == FALSE

\* the timer's early return
TimerSkips == IsOpen(ws)

\* this.connectionRetry *= 2
NextRetry(r) == r * 2

\* "close" event of WebSocket w: the app's close listener, then setTimeout
SocketClose(w) ==
  /\ UNCHANGED <<svars, uvars>>
  /\ ws[w] \in {"CONNECTING", "OPEN", "CLOSING"}
  /\ timers < MaxTimers
  /\ LET st == [ws EXCEPT ![w] = "CLOSED"] IN
       IF username # NoName
       THEN login(st, username)
       ELSE NoSend(st) /\ UNCHANGED loginQueued
  /\ connected' = FALSE
  /\ timers' = timers + 1
  /\ sched' = Append(sched, [delay |-> connectionRetry, failed |-> w \notin wasOpen])
  /\ reclaimDue' = username
  /\ UNCHANGED <<connectionRetry, username, loggedIn, wasOpen>>

\* the setTimeout callback of a close handler
RetryTimer ==
  /\ UNCHANGED <<svars, uvars>>
  /\ timers > 0
  /\ timers' = timers - 1
  /\ IF TimerSkips
     THEN UNCHANGED <<ws, socket, nws, connectionRetry>>
     ELSE /\ nws < MaxSockets
          /\ NextRetry(connectionRetry) <= MaxRetry
          /\ connectionRetry' = NextRetry(connectionRetry)
          /\ ws' = [ws EXCEPT ![nws + 1] = "CONNECTING"]
          /\ socket' = nws + 1
          /\ nws' = nws + 1
  /\ UNCHANGED <<inflight, retryPromise, retryResolve, waiters, username,
                 loginQueued, loggedIn, connected, nsend, attempts, lost,
                 sched, wasOpen, reclaimDue>>

\* mutant: the open handler wakes only the first waiter
Released_first == IF waiters = <<>> THEN <<>> ELSE <<Head(waiters)>>

\* the waiters the open handler's this.retryResolve?.() releases
Released == SelectSeq(waiters, LAMBDA x : x.p = retryResolve)

RECURSIVE Bump(_, _)
Bump(att, rel) ==
  IF rel = <<>> THEN att
  ELSE Bump([att EXCEPT ![Head(rel).id] = @ + 1], Tail(rel))

\* the waiters of another promise stay suspended
StillWaiting == SelectSeq(waiters, LAMBDA x : x.p # retryResolve)

Msgs(rel) == [i \in 1..Len(rel) |-> rel[i].m]

\* "open" event of WebSocket w, and the continuations of the released sends
SocketOpen(w) ==
  /\ UNCHANGED <<svars, uvars>>
  /\ ws[w] = "CONNECTING"
  /\ ws' = [ws EXCEPT ![w] = "OPEN"]
  /\ waiters' = StillWaiting
  /\ retryPromise' = 0
  /\ connectionRetry' = BaseRetry
  /\ connected' = TRUE
  /\ inflight' = [inflight EXCEPT ![socket] = Transmit(@, Msgs(Released), ws'[socket])]
  /\ attempts' = Bump(attempts, Released)
  /\ lost' = IF ws'[socket] = "OPEN" THEN lost
             ELSE lost \cup {Released[i].id : i \in DOMAIN Released}
  /\ sched' = <<>>
  /\ wasOpen' = wasOpen \cup {w}
  /\ reclaimDue' = NoName
  /\ UNCHANGED <<socket, nws, retryResolve, timers, username, loginQueued,
                 loggedIn, nsend>>

\* the closing handshake of OPEN WebSocket w starts (readyState CLOSING)
SocketClosing(w) ==
  /\ UNCHANGED <<svars, uvars>>
  /\ ws[w] = "OPEN"
  /\ ws' = [ws EXCEPT ![w] = "CLOSING"]
  /\ UNCHANGED <<inflight, socket, nws, connectionRetry, retryPromise,
                 retryResolve, waiters, timers, username, loginQueued,
                 loggedIn, connected, nsend, attempts, lost, sched, wasOpen,
                 reclaimDue>>

Remove(q, i) == [j \in 1..(Len(q) - 1) |-> IF j < i THEN q[j] ELSE q[j + 1]]

\* the server messages that can answer a request
Replies(m) ==
  IF m.type = "RequestUsername" THEN {"Welcome", "Error"}
  ELSE {"MessagesForRecipient", "Error"}

\* a MessageRecipient: {User: id} or {Group: id}; null
NoRecipient == [kind |-> "none", id |-> 0]
User(u) == [kind |-> "User", id |-> u]
Group(g) == [kind |-> "Group", id |-> g]

\* msg.user_id of the Welcome
OwnId == 1

\* StcApp.onMessage, the cases of the login handshake; the cases of the
\* displayed conversation are onMessagesForRecipient and onMessageSent
onMessage(type) ==
  /\ loginQueued' = IF type \in {"Error", "Welcome"} THEN FALSE ELSE loginQueued
  /\ loggedIn' = IF type = "Welcome" THEN TRUE ELSE loggedIn
  /\ userId' = IF type = "Welcome" THEN OwnId ELSE userId

\* "message" event of WebSocket w: the answer to its i-th unanswered request
SocketMessage(w, i, type) ==
  /\ UNCHANGED <<svars, currentRecipient, messages, row, value, detail, requests>>
  /\ ws[w] = "OPEN"
  /\ i \in DOMAIN inflight[w]
  /\ type \in Replies(inflight[w][i])
  /\ inflight' = [inflight EXCEPT ![w] = Remove(@, i)]
  /\ onMessage(type)
  /\ UNCHANGED <<ws, socket, nws, connectionRetry, retryPromise, retryResolve,
                 waiters, timers, username, connected, nsend, attempts, lost,
                 sched, wasOpen, reclaimDue>>

\* the state after `new StcApp()`: nothing stored, or the stored username
\* is claimed at once (login -> send -> reconnect -> initSocket)
ClientInit ==
  /\ username \in Names \cup {NoName}
  /\ loginQueued = (username # NoName)
  /\ loggedIn = FALSE
  /\ connected = FALSE
  /\ nws = IF username = NoName THEN 0 ELSE 1
  /\ socket = nws
  /\ ws = [w \in Sockets |-> IF w <= nws THEN "CONNECTING" ELSE "NONE"]
  /\ inflight = [w \in Sockets |-> <<>>]
  /\ connectionRetry = BaseRetry
  /\ retryPromise = nws
  /\ retryResolve = nws
  /\ nsend = nws
  /\ waiters = IF username = NoName THEN <<>>
               ELSE <<[p |-> 1, id |-> 1, m |-> RequestUsername(username)]>>
  /\ timers = 0
  /\ attempts = [i \in SendIds |-> 0]
  /\ lost = {}
  /\ sched = <<>>
  /\ wasOpen = {}
  /\ reclaimDue = NoName

ClientNext ==
  \/ \E name \in Names : loginSubmit(name)
  \/ showRecepientMessages
  \/ \E w \in Sockets : SocketClose(w)
  \/ RetryTimer
  \/ \E w \in Sockets : SocketOpen(w)
  \/ \E w \in Sockets : SocketClosing(w)
  \/ \E w \in Sockets, i \in 1..MaxSends, type \in {"Welcome", "Error", "MessagesForRecipient"} :
       SocketMessage(w, i, type)


\* ================================================================ server
Conns == 1..MaxConns

\* a user name is a tuple of characters; conn.username starts undefined
Undefined == <<"undefined">>
WordChars == {"a", "b", "_"}
ClaimNames == {<<"a">>, <<"b">>, <<"a", "!">>}
Recipients == {<<"a">>, <<"b">>}

\* messagesWss.clients: ws removes a connection when its close event fires
clients == {c \in Conns : conn[c] \in {"OPEN", "CLOSING"}}

\* mutant: only the connections that are OPEN count as holders
isUsernameUnique_open(name) ==
  ~\E el \in clients : conn[el] = "OPEN" /\ connName[el] = name

\* mutant: a name with a record in db.users counts as held
isUsernameUnique_store(name) ==
  /\ ~\E el \in clients : connName[el] = name
  /\ \A k \in DOMAIN dbUsers : dbUsers[k] # name

isUsernameUnique(name) == ~\E el \in clients : connName[el] = name

\* mutant: every name passes the character policy
isValidUsername_any(name) == TRUE

\* !/[^\w ]/.test(username)
isValidUsername(name) == \A i \in DOMAIN name : name[i] \in WordChars \cup {" "}

getLoggedInUsers == {el \in clients : connName[el] # Undefined /\ conn[el] = "OPEN"}

\* ev for every connection of the set to, in the order of connection
RECURSIVE Frames(_, _, _)
Frames(to, ev, c) ==
  IF c > MaxConns THEN <<>>
  ELSE (IF c \in to THEN <<[to |-> c, ev |-> ev]>> ELSE <<>>) \o Frames(to, ev, c + 1)

\* el.send(...) for every el of to; a frame for a socket that is no longer
\* OPEN is dropped
SendTo(to, ev) == Frames({c \in to : conn[c] = "OPEN"}, ev, 1)

\* position of the first record of users with that username, 0 when none
RECURSIVE FindUser(_, _, _)
FindUser(users, name, i) ==
  IF i > Len(users) THEN 0
  ELSE IF users[i] = name THEN i
  ELSE FindUser(users, name, i + 1)

\* a suspended handler: its position (pc) and its locals; anon records that
\* conn.username was undefined when the request arrived
NoTask == [type |-> "none", conn |-> 0, pc |-> "done", name |-> Undefined,
           sname |-> Undefined, existing |-> {}, users |-> <<>>, user |-> 0,
           groups |-> {}, sender |-> 0, recv |-> 0, msg |-> 0, anon |-> FALSE,
           gid |-> 0, gname |-> "", names |-> <<>>, old |-> <<>>, missing |-> <<>>,
           ids |-> {}, members |-> {}]

TaskIds == 1..MaxTasks

Spawn(t) == tasks' = Append(tasks, t)
Resume(i, t) == tasks' = [tasks EXCEPT ![i] = t]
Finish(i) == tasks' = [j \in 1..(Len(tasks) - 1) |-> IF j < i THEN tasks[j] ELSE tasks[j + 1]]

\* an exception escapes the async message listener: the rejection is unhandled
\* and node (22, no unhandledRejection listener) ends the process; every
\* connection is gone and no handler continues
Crash ==
  /\ conn' = [c \in Conns |-> "CLOSED"]
  /\ tasks' = <<>>
  /\ sent' = <<>>

\* "connection" event; the connections are numbered in the order they arrive
Connect(c) ==
  /\ UNCHANGED <<cvars, uvars>>
  /\ conn[c] = "NEW"
  /\ \A d \in 1..(c - 1) : conn[d] # "NEW"
  /\ conn' = [conn EXCEPT ![c] = "OPEN"]
  /\ sent' = <<>>
  /\ UNCHANGED <<connName, dbUsers, dbGroups, dbMessages, tasks, nreq, nops, lastReq>>

\* a close frame arrives or the transport fails: readyState CLOSING
ConnClosing(c) ==
  /\ UNCHANGED <<cvars, uvars>>
  /\ conn[c] = "OPEN"
  /\ conn' = [conn EXCEPT ![c] = "CLOSING"]
  /\ sent' = <<>>
  /\ UNCHANGED <<connName, dbUsers, dbGroups, dbMessages, tasks, nreq, nops, lastReq>>

\* "close" event of connection c
ConnClose(c) ==
  /\ UNCHANGED <<cvars, uvars>>
  /\ conn[c] \in {"OPEN", "CLOSING"}
  /\ conn' = [conn EXCEPT ![c] = "CLOSED"]
  /\ sent' = Frames(getLoggedInUsers \ {c},
                    [type |-> "user-disconnect", username |-> connName[c]], 1)
  /\ UNCHANGED <<connName, dbUsers, dbGroups, dbMessages, tasks, nreq, nops, lastReq>>

\* case "username", up to `await db.users.findAsync()`
OnUsername(c, name) ==
  /\ UNCHANGED <<cvars, uvars>>
  /\ conn[c] = "OPEN"
  /\ nreq < MaxReq /\ Len(tasks) < MaxTasks
  /\ nreq' = nreq + 1
  /\ IF isUsernameUnique(name) /\ isValidUsername(name)
     THEN /\ connName' = [connName EXCEPT ![c] = name]
          /\ Spawn([NoTask EXCEPT !.type = "username", !.conn = c, !.pc = "findUsers",
                                  !.existing = getLoggedInUsers])
          /\ sent' = <<>>
     ELSE /\ sent' = SendTo({c}, [type |-> "invalid-username"])
          /\ UNCHANGED <<connName, tasks>>
  /\ lastReq' = [conn |-> c, name |-> name]
  /\ UNCHANGED <<conn, dbUsers, dbGroups, dbMessages, nops>>

\* contacts: every stored user, online when an existing client has its name
\* (only the first record of a name is marked), then the existing clients
\* without a record; the claimer's own name is filtered out
Contacts(users, existing, self) ==
  LET stored == {[username |-> users[k], online |->
                    \E e \in existing : connName[e] = users[k] /\ FindUser(users, users[k], 1) = k,
                  id |-> k] : k \in DOMAIN users}
      pushed == {[username |-> connName[e], online |-> TRUE, id |-> 0] :
                    e \in {x \in existing : FindUser(users, connName[x], 1) = 0}}
  IN {u \in stored \cup pushed : u.username # self}

\* the "new-user" broadcast and the "logged-in" reply
UsernameReply(i, t, history) ==
  /\ sent' = SendTo(t.existing, [type |-> "new-user", username |-> connName[t.conn]])
              \o SendTo({t.conn},
                        [type |-> "logged-in", username |-> connName[t.conn],
                         users |-> Contacts(t.users, t.existing, connName[t.conn]),
                         groups |-> t.groups, history |-> history])
  /\ Finish(i)

\* db.users.findAsync() resolves
UsernameFindUsers(i) ==
  /\ UNCHANGED <<cvars, uvars>>
  /\ i \in DOMAIN tasks
  /\ tasks[i].type = "username" /\ tasks[i].pc = "findUsers"
  /\ LET t == [tasks[i] EXCEPT !.users = dbUsers,
                               !.user = FindUser(dbUsers, connName[tasks[i].conn], 1)]
     IN IF t.user # 0
        THEN Resume(i, [t EXCEPT !.pc = "findGroups"]) /\ sent' = <<>>
        ELSE UsernameReply(i, t, <<>>)
  /\ UNCHANGED <<conn, connName, dbUsers, dbGroups, dbMessages, nreq, nops, lastReq>>

\* db.groups.findAsync({ members: { $elemMatch: user._id } }) resolves
UsernameFindGroups(i) ==
  /\ UNCHANGED <<cvars, uvars>>
  /\ i \in DOMAIN tasks
  /\ tasks[i].type = "username" /\ tasks[i].pc = "findGroups"
  /\ Resume(i, [tasks[i] EXCEPT !.pc = "findHistory",
                  !.groups = {g \in DOMAIN dbGroups :
                               dbGroups[g].live /\ tasks[i].user \in dbGroups[g].members}])
  /\ sent' = <<>>
  /\ UNCHANGED <<conn, connName, dbUsers, dbGroups, dbMessages, nreq, nops, lastReq>>

\* the messages the user sent, received, or that went to one of the groups
History(user, groups) ==
  SelectSeq([k \in DOMAIN dbMessages |-> [dbMessages[k] EXCEPT !.id = k]],
            LAMBDA m : m.live /\ (m.sender = user \/ m.receivingUser = user
                                   \/ m.receivingGroup \in groups))

\* resolveMessageUserIds(allUsers, message) finds the sender and the
\* receiving user in the users read earlier; `.username` of undefined throws
Resolvable(users, m) ==
  m.sender \in DOMAIN users /\ (m.receivingUser # 0 => m.receivingUser \in DOMAIN users)

\* db.messages.findAsync(...).sort({ createdAt: 1 }) resolves
UsernameFindHistory(i) ==
  /\ UNCHANGED <<cvars, uvars>>
  /\ i \in DOMAIN tasks
  /\ tasks[i].type = "username" /\ tasks[i].pc = "findHistory"
  /\ LET history == History(tasks[i].user, tasks[i].groups) IN
       IF \A k \in DOMAIN history : Resolvable(tasks[i].users, history[k])
       THEN UsernameReply(i, tasks[i], history) /\ UNCHANGED conn
       ELSE Crash
  /\ UNCHANGED <<connName, dbUsers, dbGroups, dbMessages, nreq, nops, lastReq>>

Range(f) == {f[k] : k \in DOMAIN f}

\* sendToCertainUsers(users, message)
sendToCertainUsers(users, ev) ==
  SendTo({el \in getLoggedInUsers : connName[el] \in users}, ev)

\* findRemoved(oldArray, newArray)
findRemoved(oldArray, newArray) ==
  SelectSeq(oldArray, LAMBDA x : x \notin Range(newArray))

\* getUsernameFromId for every id of ids: user?.username
Usernames(ids) == {dbUsers[u] : u \in ids \cap DOMAIN dbUsers}

LiveGroups == {g \in DOMAIN dbGroups : dbGroups[g].live}
LiveMessages == {m \in DOMAIN dbMessages : dbMessages[m].live}
NoGroup == [members |-> {}, name |-> "", live |-> FALSE]
NoMessage == [id |-> 0, sender |-> 0, receivingUser |-> 0, receivingGroup |-> 0,
              live |-> FALSE]

\* a message or group request arrives on connection c
Receive(c) ==
  /\ UNCHANGED <<cvars, uvars>>
  /\ conn[c] = "OPEN"
  /\ nops < MaxOps /\ Len(tasks) < MaxTasks
  /\ nops' = nops + 1
  /\ sent' = <<>>
  /\ UNCHANGED <<conn, connName, dbUsers, dbGroups, dbMessages, nreq, lastReq>>

\* the handler of a request of connection c, suspended at its first await
Handler(c, t) == [t EXCEPT !.conn = c, !.anon = (connName[c] = Undefined)]

\* case "send-message", up to the findOneAsync of getUserIdOrCreate(conn.username)
OnSendMessage(c, receipient) ==
  /\ Receive(c)
  /\ Spawn(Handler(c, [NoTask EXCEPT !.type = "send-message", !.pc = "senderFind",
                              !.sname = connName[c], !.name = receipient]))

\* case "send-group-message", likewise
OnSendGroupMessage(c, id) ==
  /\ Receive(c)
  /\ Spawn(Handler(c, [NoTask EXCEPT !.type = "send-group-message", !.pc = "senderFind",
                              !.sname = connName[c], !.gid = id]))

IsSend(t) == t.type \in {"send-message", "send-group-message"}

\* the await that follows once the sender's id is known
AfterSender(t) == IF t.type = "send-message" THEN "recvFind" ELSE "msgInsert"

\* getUserIdOrCreate: db.users.findOneAsync({ username }) resolves; a query
\* for an undefined username matches no record
SendMessageFind(i) ==
  /\ UNCHANGED <<cvars, uvars>>
  /\ i \in DOMAIN tasks
  /\ IsSend(tasks[i]) /\ tasks[i].pc \in {"senderFind", "recvFind"}
  /\ LET t == tasks[i]
         who == IF t.pc = "senderFind" THEN t.sname ELSE t.name
         id == IF who = Undefined THEN 0 ELSE FindUser(dbUsers, who, 1)
     IN Resume(i, IF t.pc = "senderFind"
                  THEN (IF id # 0 THEN [t EXCEPT !.sender = id, !.pc = AfterSender(t)]
                        ELSE [t EXCEPT !.pc = "senderInsert"])
                  ELSE (IF id # 0 THEN [t EXCEPT !.recv = id, !.pc = "msgInsert"]
                        ELSE [t EXCEPT !.pc = "recvInsert"]))
  /\ sent' = <<>>
  /\ UNCHANGED <<conn, connName, dbUsers, dbGroups, dbMessages, nreq, nops, lastReq>>

\* getUserIdOrCreate: db.users.insertAsync({ username })
SendMessageInsertUser(i) ==
  /\ UNCHANGED <<cvars, uvars>>
  /\ i \in DOMAIN tasks
  /\ IsSend(tasks[i]) /\ tasks[i].pc \in {"senderInsert", "recvInsert"}
  /\ LET t == tasks[i] IN
       IF t.pc = "senderInsert"
       THEN /\ dbUsers' = Append(dbUsers, t.sname)
            /\ Resume(i, [t EXCEPT !.sender = Len(dbUsers) + 1, !.pc = AfterSender(t)])
       ELSE /\ dbUsers' = Append(dbUsers, t.name)
            /\ Resume(i, [t EXCEPT !.recv = Len(dbUsers) + 1, !.pc = "msgInsert"])
  /\ sent' = <<>>
  /\ UNCHANGED <<conn, connName, dbGroups, dbMessages, nreq, nops, lastReq>>

\* db.messages.insertAsync({ sender, receivingUser | receivingGroup, ... })
SendMessageInsert(i) ==
  /\ UNCHANGED <<cvars, uvars>>
  /\ i \in DOMAIN tasks
  /\ IsSend(tasks[i]) /\ tasks[i].pc = "msgInsert"
  /\ dbMessages' = Append(dbMessages, [id |-> 0, sender |-> tasks[i].sender,
                                       receivingUser |-> tasks[i].recv,
                                       receivingGroup |-> tasks[i].gid,
                                       live |-> TRUE])
  /\ Resume(i, [tasks[i] EXCEPT !.msg = Len(dbMessages) + 1,
                  !.pc = IF tasks[i].type = "send-message" THEN "msgSend" ELSE "groupFind"])
  /\ sent' = <<>>
  /\ UNCHANGED <<conn, connName, dbUsers, dbGroups, nreq, nops, lastReq>>

\* sendToCertainUsers([parsedMsg.receipient, conn.username], ...)
SendMessageSend(i) ==
  /\ UNCHANGED <<cvars, uvars>>
  /\ i \in DOMAIN tasks
  /\ tasks[i].type = "send-message" /\ tasks[i].pc = "msgSend"
  /\ LET t == tasks[i] IN
       sent' = sendToCertainUsers({t.name, connName[t.conn]},
                      [type |-> "receive-message", id |-> t.msg,
                       sender |-> connName[t.conn], receivingUser |-> t.name])
  /\ Finish(i)
  /\ UNCHANGED <<conn, connName, dbUsers, dbGroups, dbMessages, nreq, nops, lastReq>>

\* send-group-message: db.groups.findOneAsync({ _id: parsedMsg.id }) resolves;
\* destructuring null throws
GroupMessageFind(i) ==
  /\ UNCHANGED <<cvars, uvars>>
  /\ i \in DOMAIN tasks
  /\ tasks[i].type = "send-group-message" /\ tasks[i].pc = "groupFind"
  /\ IF tasks[i].gid \in LiveGroups
     THEN /\ Resume(i, [tasks[i] EXCEPT !.members = dbGroups[tasks[i].gid].members,
                                        !.pc = "groupSend"])
          /\ sent' = <<>>
          /\ UNCHANGED conn
     ELSE Crash
  /\ UNCHANGED <<connName, dbUsers, dbGroups, dbMessages, nreq, nops, lastReq>>

\* send-group-message: the member names are resolved, sendToCertainUsers
GroupMessageSend(i) ==
  /\ UNCHANGED <<cvars, uvars>>
  /\ i \in DOMAIN tasks
  /\ tasks[i].type = "send-group-message" /\ tasks[i].pc = "groupSend"
  /\ LET t == tasks[i] IN
       sent' = sendToCertainUsers(Usernames(t.members),
                      [type |-> "receive-message", id |-> t.msg,
                       sender |-> connName[t.conn], receivingGroup |-> t.gid])
  /\ Finish(i)
  /\ UNCHANGED <<conn, connName, dbUsers, dbGroups, dbMessages, nreq, nops, lastReq>>

\* case "delete-message", up to db.messages.findOneAsync({ _id })
OnDeleteMessage(c, id) ==
  /\ Receive(c)
  /\ Spawn(Handler(c, [NoTask EXCEPT !.type = "delete-message", !.pc = "dmFind", !.msg = id]))

\* delete-message: the message is found; destructuring null throws
DeleteMessageFind(i) ==
  /\ UNCHANGED <<cvars, uvars>>
  /\ i \in DOMAIN tasks
  /\ tasks[i].type = "delete-message" /\ tasks[i].pc = "dmFind"
  /\ IF tasks[i].msg \in LiveMessages
     THEN LET m == dbMessages[tasks[i].msg] IN
          /\ Resume(i, [tasks[i] EXCEPT !.sender = m.sender, !.recv = m.receivingUser,
                          !.gid = m.receivingGroup,
                          !.pc = IF m.receivingGroup # 0 THEN "dmGroup" ELSE "dmCheck"])
          /\ sent' = <<>>
          /\ UNCHANGED conn
     ELSE Crash
  /\ UNCHANGED <<connName, dbUsers, dbGroups, dbMessages, nreq, nops, lastReq>>

\* delete-message: db.groups.findOneAsync({ _id: receivingGroup }) resolves
DeleteMessageGroup(i) ==
  /\ UNCHANGED <<cvars, uvars>>
  /\ i \in DOMAIN tasks
  /\ tasks[i].type = "delete-message" /\ tasks[i].pc = "dmGroup"
  /\ IF tasks[i].gid \in LiveGroups
     THEN /\ Resume(i, [tasks[i] EXCEPT !.members = dbGroups[tasks[i].gid].members,
                                        !.pc = "dmCheck"])
          /\ sent' = <<>>
          /\ UNCHANGED conn
     ELSE Crash
  /\ UNCHANGED <<connName, dbUsers, dbGroups, dbMessages, nreq, nops, lastReq>>

\* affectedUsernames: the sender, the receiving user, the group's members
Affected(t) ==
  Usernames({t.sender} \cup (IF t.recv # 0 THEN {t.recv} ELSE {}) \cup t.members)

\* delete-message: if (!affectedUsernames.includes(conn.username)) return
DeleteMessageCheck(i) ==
  /\ UNCHANGED <<cvars, uvars>>
  /\ i \in DOMAIN tasks
  /\ tasks[i].type = "delete-message" /\ tasks[i].pc = "dmCheck"
  /\ IF connName[tasks[i].conn] \in Affected(tasks[i])
     THEN Resume(i, [tasks[i] EXCEPT !.pc = "dmRemove"])
     ELSE Finish(i)
  /\ sent' = <<>>
  /\ UNCHANGED <<conn, connName, dbUsers, dbGroups, dbMessages, nreq, nops, lastReq>>

\* delete-message: db.messages.removeAsync({ _id }) resolves, sendToCertainUsers
DeleteMessageRemove(i) ==
  /\ UNCHANGED <<cvars, uvars>>
  /\ i \in DOMAIN tasks
  /\ tasks[i].type = "delete-message" /\ tasks[i].pc = "dmRemove"
  /\ dbMessages' = [dbMessages EXCEPT ![tasks[i].msg] = NoMessage]
  /\ sent' = sendToCertainUsers(Affected(tasks[i]),
                                [type |-> "remove-message", id |-> tasks[i].msg])
  /\ Finish(i)
  /\ UNCHANGED <<conn, connName, dbUsers, dbGroups, nreq, nops, lastReq>>

\* case "create-group", up to the findOneAsync of every getUserIdOrCreate
OnCreateGroup(c, members, name) ==
  /\ Receive(c)
  /\ Spawn(Handler(c, [NoTask EXCEPT !.type = "create-group", !.pc = "membersFind",
                              !.names = members, !.gname = name]))

\* case "edit-group", likewise
OnEditGroup(c, id, name, oldMembers, newMembers) ==
  /\ Receive(c)
  /\ Spawn(Handler(c, [NoTask EXCEPT !.type = "edit-group", !.pc = "membersFind", !.gid = id,
                              !.names = newMembers, !.old = oldMembers, !.gname = name]))

IsGroupWrite(t) == t.type \in {"create-group", "edit-group"}

\* Promise.all(members.map(getUserIdOrCreate)): the findOneAsync calls were
\* queued together and resolve one after the other
MembersFind(i) ==
  /\ UNCHANGED <<cvars, uvars>>
  /\ i \in DOMAIN tasks
  /\ IsGroupWrite(tasks[i]) /\ tasks[i].pc = "membersFind"
  /\ LET t == tasks[i]
         missing == SelectSeq(t.names, LAMBDA n : FindUser(dbUsers, n, 1) = 0)
     IN Resume(i, [t EXCEPT !.ids = {FindUser(dbUsers, t.names[k], 1) : k \in DOMAIN t.names} \ {0},
                            !.missing = missing,
                            !.pc = IF missing = <<>> THEN "groupWrite" ELSE "membersInsert"])
  /\ sent' = <<>>
  /\ UNCHANGED <<conn, connName, dbUsers, dbGroups, dbMessages, nreq, nops, lastReq>>

\* Promise.all(members.map(getUserIdOrCreate)): the next insertAsync resolves
MembersInsert(i) ==
  /\ UNCHANGED <<cvars, uvars>>
  /\ i \in DOMAIN tasks
  /\ IsGroupWrite(tasks[i]) /\ tasks[i].pc = "membersInsert"
  /\ LET t == tasks[i] IN
       /\ dbUsers' = Append(dbUsers, Head(t.missing))
       /\ Resume(i, [t EXCEPT !.ids = @ \cup {Len(dbUsers) + 1},
                              !.missing = Tail(@),
                              !.pc = IF Len(t.missing) = 1 THEN "groupWrite" ELSE "membersInsert"])
  /\ sent' = <<>>
  /\ UNCHANGED <<conn, connName, dbGroups, dbMessages, nreq, nops, lastReq>>

\* create-group: db.groups.insertAsync resolves, sendToCertainUsers
GroupInsert(i) ==
  /\ UNCHANGED <<cvars, uvars>>
  /\ i \in DOMAIN tasks
  /\ tasks[i].type = "create-group" /\ tasks[i].pc = "groupWrite"
  /\ LET t == tasks[i] IN
       /\ dbGroups' = Append(dbGroups, [members |-> t.ids, name |-> t.gname, live |-> TRUE])
       /\ sent' = sendToCertainUsers(Range(t.names),
                     [type |-> "update-group", id |-> Len(dbGroups) + 1,
                      members |-> Range(t.names)])
  /\ Finish(i)
  /\ UNCHANGED <<conn, connName, dbUsers, dbMessages, nreq, nops, lastReq>>

\* the two sendToCertainUsers calls of edit-group; g is the updated document
\* (0 when affectedDocuments is null)
EditGroupEvents(t, g) ==
  sendToCertainUsers(Range(t.names),
                     [type |-> "update-group", id |-> g, members |-> Range(t.names)])
  \o sendToCertainUsers(Range(findRemoved(t.old, t.names)),
                        [type |-> "removed-from-group", id |-> t.gid])

\* edit-group: db.groups.updateAsync({}, { $set: { members, name } }) resolves:
\* the query {} matches every group and, without multi, the first candidate
\* is updated; the candidates come in the order of their random _id
GroupUpdate(i) ==
  /\ UNCHANGED <<cvars, uvars>>
  /\ i \in DOMAIN tasks
  /\ tasks[i].type = "edit-group" /\ tasks[i].pc = "groupWrite"
  /\ LET t == tasks[i] IN
       IF LiveGroups = {}
       THEN sent' = EditGroupEvents(t, 0) /\ UNCHANGED dbGroups
       ELSE \E g \in LiveGroups :
              /\ dbGroups' = [dbGroups EXCEPT ![g] = [members |-> t.ids, name |-> t.gname,
                                                      live |-> TRUE]]
              /\ sent' = EditGroupEvents(t, g)
  /\ Finish(i)
  /\ UNCHANGED <<conn, connName, dbUsers, dbMessages, nreq, nops, lastReq>>

\* case "delete-group", up to db.groups.findOneAsync({ _id })
OnDeleteGroup(c, id) ==
  /\ Receive(c)
  /\ Spawn(Handler(c, [NoTask EXCEPT !.type = "delete-group", !.pc = "dgFind", !.gid = id]))

\* delete-group: the group is found; destructuring null throws
DeleteGroupFind(i) ==
  /\ UNCHANGED <<cvars, uvars>>
  /\ i \in DOMAIN tasks
  /\ tasks[i].type = "delete-group" /\ tasks[i].pc = "dgFind"
  /\ IF tasks[i].gid \in LiveGroups
     THEN /\ Resume(i, [tasks[i] EXCEPT !.members = dbGroups[tasks[i].gid].members,
                                        !.pc = "dgNotify"])
          /\ sent' = <<>>
          /\ UNCHANGED conn
     ELSE Crash
  /\ UNCHANGED <<connName, dbUsers, dbGroups, dbMessages, nreq, nops, lastReq>>

\* delete-group: the member names are resolved, sendToCertainUsers
DeleteGroupNotify(i) ==
  /\ UNCHANGED <<cvars, uvars>>
  /\ i \in DOMAIN tasks
  /\ tasks[i].type = "delete-group" /\ tasks[i].pc = "dgNotify"
  /\ sent' = sendToCertainUsers(Usernames(tasks[i].members),
                                [type |-> "removed-from-group", id |-> tasks[i].gid])
  /\ Resume(i, [tasks[i] EXCEPT !.pc = "dgRemoveGroup"])
  /\ UNCHANGED <<conn, connName, dbUsers, dbGroups, dbMessages, nreq, nops, lastReq>>

\* delete-group: db.groups.removeAsync({ _id }) resolves
DeleteGroupRemove(i) ==
  /\ UNCHANGED <<cvars, uvars>>
  /\ i \in DOMAIN tasks
  /\ tasks[i].type = "delete-group" /\ tasks[i].pc = "dgRemoveGroup"
  /\ dbGroups' = [dbGroups EXCEPT ![tasks[i].gid] = NoGroup]
  /\ Resume(i, [tasks[i] EXCEPT !.pc = "dgRemoveMessages"])
  /\ sent' = <<>>
  /\ UNCHANGED <<conn, connName, dbUsers, dbMessages, nreq, nops, lastReq>>

\* the messages addressed to group g
GroupMessages(g) == {m \in LiveMessages : dbMessages[m].receivingGroup = g}

\* delete-group: db.messages.removeAsync({ receivingGroup }, { _multi: true })
\* resolves: the option nedb reads is `multi`, so the first matching candidate
\* (in the order of the random _id) is removed and no other
DeleteGroupRemoveMessages(i) ==
  /\ UNCHANGED <<cvars, uvars>>
  /\ i \in DOMAIN tasks
  /\ tasks[i].type = "delete-group" /\ tasks[i].pc = "dgRemoveMessages"
  /\ IF GroupMessages(tasks[i].gid) = {}
     THEN UNCHANGED dbMessages
     ELSE \E m \in GroupMessages(tasks[i].gid) :
            dbMessages' = [dbMessages EXCEPT ![m] = NoMessage]
  /\ Finish(i)
  /\ sent' = <<>>
  /\ UNCHANGED <<conn, connName, dbUsers, dbGroups, nreq, nops, lastReq>>

\* the stores are loaded from disk: users left by earlier runs
StoredUsers == {<<>>, <<<<"a">>>>, <<<<"a">>, <<"b">>>>}

ServerInit ==
  /\ conn = [c \in Conns |-> "NEW"]
  /\ connName = [c \in Conns |-> Undefined]
  /\ dbUsers \in StoredUsers
  /\ dbGroups = <<>>
  /\ dbMessages = <<>>
  /\ tasks = <<>>
  /\ sent = <<>>
  /\ nreq = 0
  /\ nops = 0
  /\ lastReq = [conn |-> 0, name |-> Undefined]

ServerNext ==
  \/ \E c \in Conns : Connect(c)
  \/ \E c \in Conns : ConnClosing(c)
  \/ \E c \in Conns : ConnClose(c)
  \/ \E c \in Conns, name \in ClaimNames : OnUsername(c, name)
  \/ \E i \in TaskIds : UsernameFindUsers(i)
  \/ \E i \in TaskIds : UsernameFindGroups(i)
  \/ \E i \in TaskIds : UsernameFindHistory(i)

\* the parameters of the message and group requests
MaxGroups == 2
MaxMessages == 2
GroupIds == 1..MaxGroups
MessageIds == 1..MaxMessages
GroupNames == {"h"}
MemberLists == {<<<<"a">>>>, <<<<"a">>, <<"b">>>>}

MessageNext ==
  \/ \E c \in Conns : Connect(c)
  \/ \E c \in Conns : ConnClose(c)
  \/ \E c \in Conns, name \in Recipients : OnUsername(c, name)
  \/ \E i \in TaskIds : UsernameFindUsers(i)
  \/ \E i \in TaskIds : UsernameFindGroups(i)
  \/ \E i \in TaskIds : UsernameFindHistory(i)
  \/ \E c \in Conns, r \in Recipients : OnSendMessage(c, r)
  \/ \E i \in TaskIds : SendMessageFind(i)
  \/ \E i \in TaskIds : SendMessageInsertUser(i)
  \/ \E i \in TaskIds : SendMessageInsert(i)
  \/ \E i \in TaskIds : SendMessageSend(i)

\* users, a group and its messages left by earlier runs
StoredGroup ==
  /\ dbUsers = << <<"a">>, <<"b">> >>
  /\ dbGroups = <<[members |-> {1, 2}, name |-> "g", live |-> TRUE]>>
  /\ dbMessages = [k \in 1..2 |-> [id |-> 0, sender |-> 1, receivingUser |-> 0,
                                   receivingGroup |-> 1, live |-> TRUE]]

GroupInit ==
  /\ conn = [c \in Conns |-> "NEW"]
  /\ connName = [c \in Conns |-> Undefined]
  /\ StoredGroup \/ (dbUsers = << <<"a">> >> /\ dbGroups = <<>> /\ dbMessages = <<>>)
  /\ tasks = <<>>
  /\ sent = <<>>
  /\ nreq = 0
  /\ nops = 0
  /\ lastReq = [conn |-> 0, name |-> Undefined]

\* the connection events and the "username" request
SessionNext ==
  \/ \E c \in Conns : Connect(c)
  \/ \E c \in Conns : ConnClose(c)
  \/ \E c \in Conns, name \in Recipients : OnUsername(c, name)
  \/ \E i \in TaskIds : UsernameFindUsers(i)
  \/ \E i \in TaskIds : UsernameFindGroups(i)
  \/ \E i \in TaskIds : UsernameFindHistory(i)

DeleteGroupNext ==
  \/ \E c \in Conns, g \in GroupIds : OnDeleteGroup(c, g)
  \/ \E i \in TaskIds : DeleteGroupFind(i)
  \/ \E i \in TaskIds : DeleteGroupNotify(i)
  \/ \E i \in TaskIds : DeleteGroupRemove(i)
  \/ \E i \in TaskIds : DeleteGroupRemoveMessages(i)

GroupNext ==
  \/ SessionNext
  \/ \E c \in Conns, l \in MemberLists, n \in GroupNames : OnCreateGroup(c, l, n)
  \/ \E c \in Conns, g \in GroupIds, n \in GroupNames, o, l \in MemberLists :
        OnEditGroup(c, g, n, o, l)
  \/ \E i \in TaskIds : MembersFind(i)
  \/ \E i \in TaskIds : MembersInsert(i)
  \/ \E i \in TaskIds : GroupInsert(i)
  \/ \E i \in TaskIds : GroupUpdate(i)

GroupMessageNext ==
  \/ SessionNext
  \/ DeleteGroupNext
  \/ \E c \in Conns, g \in GroupIds : OnSendGroupMessage(c, g)
  \/ \E i \in TaskIds : SendMessageFind(i)
  \/ \E i \in TaskIds : SendMessageInsertUser(i)
  \/ \E i \in TaskIds : SendMessageInsert(i)
  \/ \E i \in TaskIds : GroupMessageFind(i)
  \/ \E i \in TaskIds : GroupMessageSend(i)
  \/ \E c \in Conns, m \in MessageIds : OnDeleteMessage(c, m)
  \/ \E i \in TaskIds : DeleteMessageFind(i)
  \/ \E i \in TaskIds : DeleteMessageGroup(i)
  \/ \E i \in TaskIds : DeleteMessageCheck(i)
  \/ \E i \in TaskIds : DeleteMessageRemove(i)

\* ================================================================== views
\* --- the tag list (components/tag-list.ts)
\* a text is the sequence of its characters
Space == " "
Tab == "\t"
Whitespace == {Space, Tab}
TagChars == {Space, Tab, "x", "y"}
Values == UNION {[1..n -> TagChars] : n \in 0..MaxLen}

\* String.prototype.split(sep): the pieces between the separators
RECURSIVE split(_, _)
split(v, sep) ==
  IF \E k \in DOMAIN v : v[k] = sep
  THEN LET k == CHOOSE k \in DOMAIN v : v[k] = sep /\ \A j \in 1..(k - 1) : v[j] # sep
       IN <<SubSeq(v, 1, k - 1)>> \o split(SubSeq(v, k + 1, Len(v)), sep)
  ELSE <<v>>

\* a trim that leaves the text as it is
trim_off(el) == el

\* String.prototype.trim(): without the leading and the trailing white space
trim(el) ==
  LET ink == {k \in DOMAIN el : el[k] \notin Whitespace}
  IN IF ink = {} THEN <<>>
     ELSE SubSeq(el, CHOOSE k \in ink : \A j \in ink : k <= j,
                     CHOOSE k \in ink : \A j \in ink : k >= j)

\* [...new Set(l)]: the elements in the order of their first occurrence
RECURSIVE unique(_)
unique(l) ==
  IF l = <<>> THEN <<>>
  ELSE LET r == unique(SubSeq(l, 1, Len(l) - 1))
       IN IF \E k \in DOMAIN r : r[k] = l[Len(l)] THEN r ELSE Append(r, l[Len(l)])

\* Array.prototype.join(sep)
RECURSIVE join(_, _)
join(l, sep) ==
  IF l = <<>> THEN <<>>
  ELSE IF Len(l) = 1 THEN l[1]
  ELSE l[1] \o <<sep>> \o join(Tail(l), sep)

\* onBlur: [...new Set(value.split(" ").map(el => el.trim()).filter(el => el))]
Tags(v) ==
  LET pieces == split(v, Space)
      trimmed == [k \in DOMAIN pieces |-> trim(pieces[k])]
  IN unique(SelectSeq(trimmed, LAMBDA el : el # <<>>))

\* the listeners the templates attach for the tag events: message-row
\* attaches none to its tag-list, message-list listens on every message-row,
\* stc-app listens on message-list
Listeners ==
  {[on |-> "message-row", type |-> "tags-changed-1", handler |-> "tagsChanged"],
   [on |-> "message-list", type |-> "tags-changed", handler |-> "editTags"]}

\* dispatchEvent(new CustomEvent(type)) on the element: the event does not
\* bubble, so the listeners of the element itself run; tagsChanged dispatches
\* tags-changed on message-list in turn. The handlers that run:
RECURSIVE Handlers(_, _)
Handlers(element, type) ==
  LET hs == {l.handler : l \in {x \in Listeners : x.on = element /\ x.type = type}}
  IN hs \cup (IF "tagsChanged" \in hs THEN Handlers("message-list", "tags-changed")
              ELSE {})

NoDetail == [tags |-> <<>>, from |-> <<"none">>]
NoRow == [id |-> 0, canEdit |-> FALSE]
Rows == [id : 1..2, canEdit : BOOLEAN]
EditTags(id, tags) == [type |-> "EditTags", id |-> id, new_tags |-> tags]

\* "blur" of the tag input (disabled unless canEdit): tag-list.onBlur, and
\* the handlers its event reaches
onBlur ==
  /\ UNCHANGED <<cvars, svars>>
  /\ row.canEdit
  /\ detail' = [tags |-> Tags(value), from |-> value]
  /\ requests' = IF "editTags" \in Handlers("tag-list", "tags-changed")
                 THEN requests \cup {EditTags(row.id, Tags(value))}
                 ELSE requests
  /\ UNCHANGED <<userId, currentRecipient, messages, row, value>>

\* the user types the space-joined tags of the last event into the input
Reenter ==
  /\ UNCHANGED <<cvars, svars>>
  /\ row.canEdit
  /\ detail # NoDetail
  /\ value' = join(detail.tags, Space)
  /\ UNCHANGED <<userId, currentRecipient, messages, row, detail, requests>>

\* --- the displayed conversation (main.ts)
UserIds == 1..3
GroupIdsShown == 1..2
MessageRecipients == {User(u) : u \in UserIds} \cup {Group(g) : g \in GroupIdsShown}
Incoming == [sender : UserIds, recipient : MessageRecipients]

\* StcApp.isForRecipient
isForRecipient(msg) ==
  LET r == msg.recipient
      cr == currentRecipient
  IN \/ r.kind = "User" /\ cr.kind = "User" /\ r.id = cr.id
     \/ r.kind = "Group" /\ cr.kind = "Group" /\ r.id = cr.id
     \/ cr.kind = "User" /\ cr.id = msg.sender

\* the histories a server returns for the conversation with r: none, or one
\* message of that conversation
Histories(r) ==
  {<<>>} \cup {<<m>> : m \in {x \in Incoming :
                 \/ r.kind = "Group" /\ x.recipient = r
                 \/ r.kind = "User" /\ x.recipient.kind = "User"
                      /\ {x.sender, x.recipient.id} = {userId, r.id}}}

\* onMessage, case "MessagesForRecipient"
onMessagesForRecipient(r, h) ==
  /\ UNCHANGED <<cvars, svars>>
  /\ h \in Histories(r)
  /\ currentRecipient' = r
  /\ messages' = h
  /\ UNCHANGED <<userId, row, value, detail, requests>>

\* onMessage, case "MessageSent"
onMessageSent(m) ==
  /\ UNCHANGED <<cvars, svars>>
  /\ Len(messages) < MaxShown
  /\ IF currentRecipient # NoRecipient /\ isForRecipient(m)
     THEN messages' = Append(messages, m)
     ELSE UNCHANGED messages
  /\ UNCHANGED <<userId, currentRecipient, row, value, detail, requests>>

\* StcApp and the components as constructed
ViewInit ==
  /\ userId = 0
  /\ currentRecipient = NoRecipient
  /\ messages = <<>>
  /\ row = NoRow
  /\ value = <<>>
  /\ detail = NoDetail
  /\ requests = {}

\* the client after the Welcome that answers its first claim
Welcomed ==
  /\ username = "ann" /\ loginQueued = FALSE /\ loggedIn = TRUE /\ connected = TRUE
  /\ nws = 1 /\ socket = 1
  /\ ws = [w \in Sockets |-> IF w = 1 THEN "OPEN" ELSE "NONE"]
  /\ inflight = [w \in Sockets |-> <<>>]
  /\ connectionRetry = BaseRetry
  /\ retryPromise = 0 /\ retryResolve = 1
  /\ nsend = 1 /\ waiters = <<>> /\ timers = 0
  /\ attempts = [i \in SendIds |-> IF i = 1 THEN 1 ELSE 0]
  /\ lost = {} /\ sched = <<>> /\ wasOpen = {1} /\ reclaimDue = NoName
  /\ userId = OwnId

\* the conversation with user 2 is displayed; it has one message, sent by
\* the user (canEdit) or by user 2, and the user has typed into the tag
\* input of its row
TagInit ==
  /\ Welcomed
  /\ row \in Rows
  /\ currentRecipient = User(2)
  /\ messages = <<IF row.canEdit THEN [sender |-> OwnId, recipient |-> User(2)]
                  ELSE [sender |-> 2, recipient |-> User(OwnId)]>>
  /\ value \in Values
  /\ detail = NoDetail
  /\ requests = {}

TagNext ==
  \/ onBlur
  \/ Reenter

\* no conversation is displayed yet
ConversationInit ==
  /\ Welcomed
  /\ currentRecipient = NoRecipient /\ messages = <<>>
  /\ row = NoRow /\ value = <<>> /\ detail = NoDetail /\ requests = {}

ConversationNext ==
  \/ \E r \in MessageRecipients \ {User(OwnId)}, h \in {<<>>} \cup {<<m>> : m \in Incoming} :
        onMessagesForRecipient(r, h)
  \/ \E m \in Incoming : onMessageSent(m)

\* ======================================================== specifications
\* the client alone, the server idle
Init == ClientInit /\ ServerInit /\ dbUsers = <<>> /\ ViewInit
Next == ClientNext
Spec == Init /\ [][Next]_vars

\* the server alone, facing a client that stays as constructed
ServerSpecInit == ClientInit /\ username = NoName /\ ServerInit /\ ViewInit
ServerSpec == ServerSpecInit /\ [][ServerNext]_vars

\* the server with the direct-message requests
MessageSpecInit == ServerSpecInit /\ dbUsers = <<>>
MessageSpec == MessageSpecInit /\ [][MessageNext]_vars

\* the server with the group requests, the stores as earlier runs left them
GroupSpecInit == ClientInit /\ username = NoName /\ GroupInit /\ ViewInit
GroupSpec == GroupSpecInit /\ [][GroupNext]_vars

\* the server with the group-message requests
GroupMessageSpec == GroupSpecInit /\ [][GroupMessageNext]_vars

\* the tag list of a displayed message, the server idle
TagSpecInit == TagInit /\ ServerInit /\ dbUsers = <<>>
TagSpec == TagSpecInit /\ [][TagNext]_vars

\* the same, every enabled step of the page eventually taken: the browser
\* runs the handlers of a dispatched event to completion
TagFairSpec == TagSpecInit /\ [][TagNext]_vars /\ WF_vars(TagNext)

\* the displayed conversation, the server idle
ConversationSpecInit == ConversationInit /\ ServerInit /\ dbUsers = <<>>
ConversationSpec == ConversationSpecInit /\ [][ConversationNext]_vars

\* ================================================================ claims
Connecting == {w \in Sockets : ws[w] = "CONNECTING"}

\* C1: at most one WebSocket created by the Socket is in the CONNECTING
\* state at any time.
C1_OneConnecting == Cardinality(Connecting) <= 1

\* C2: whenever a send call makes its transmit attempt, the Socket's current
\* WebSocket is OPEN.
C2_TransmitOnOpen ==
  [][attempts' # attempts => (socket' # 0 /\ ws'[socket'] = "OPEN")]_vars

\* the retries scheduled since the last open by connections that never opened
FailedRetries == SelectSeq(sched, LAMBDA x : x.failed)

\* C3: starting from the base delay, consecutive failed reconnects (no open
\* in between) are scheduled after base, 2*base, 4*base: each delay is twice
\* the previous one.
C3_Doubling ==
  LET f == FailedRetries IN
    (f # <<>> /\ f[1].delay = BaseRetry) =>
       \A i \in 2..Len(f) : f[i].delay = 2 * f[i - 1].delay

\* C4: after a successful open, the reconnect scheduled by the next close
\* uses the base delay.
C4_BaseAfterOpen ==
  (wasOpen # {} /\ sched # <<>>) => sched[1].delay = BaseRetry

IsClaim(m) == m.type = "RequestUsername"

\* C5: after a close with a cached username, a RequestUsername is transmitted
\* on the next connection that opens. A queued claim is transmitted by the
\* open event that releases it and by nothing else, so the claim is required
\* right after the open; the name it carries is left open here.
C5_ReclaimOnOpen ==
  [][\A w \in Sockets :
       (ws[w] = "CONNECTING" /\ ws'[w] = "OPEN" /\ reclaimDue # NoName) =>
          \E i \in DOMAIN inflight'[w] : IsClaim(inflight'[w][i])]_vars

\* the claims queued behind a reconnect
QueuedClaims == Len(SelectSeq(waiters, LAMBDA x : IsClaim(x.m)))

\* the claims sent on WebSocket w and not yet answered; the requests of a
\* closed connection are lost, no answer can arrive for them
SentClaims(w) ==
  IF ws[w] = "CLOSED" THEN 0 ELSE Len(SelectSeq(inflight[w], IsClaim))

RECURSIVE SumSent(_)
SumSent(w) == IF w = 0 THEN 0 ELSE SentClaims(w) + SumSent(w - 1)

\* C6: at most one RequestUsername is outstanding (queued behind a reconnect,
\* or sent and not yet answered by Welcome or Error).
C6_OneClaimOutstanding == QueuedClaims + SumSent(MaxSockets) <= 1

WaitingIds == {waiters[i].id : i \in DOMAIN waiters}

\* C7: while a reconnect is pending, a further send call creates no
\* WebSocket and joins the waiters of the pending promise; all waiters await
\* that one promise and a single open event releases them all.
C7_SharedReconnect ==
  /\ [][(retryPromise # 0 /\ nsend' > nsend) =>
          /\ nws' = nws /\ socket' = socket /\ retryPromise' = retryPromise
          /\ Len(waiters') = Len(waiters) + 1
          /\ waiters'[Len(waiters')].p = retryPromise]_vars
  /\ [](\A i \in DOMAIN waiters : waiters[i].p = retryPromise /\ retryPromise # 0)
  /\ [][Len(waiters') < Len(waiters) =>
          /\ waiters' = <<>>
          /\ \E w \in Sockets : ws[w] = "CONNECTING" /\ ws'[w] = "OPEN"]_vars

\* two send calls share one pending reconnect
C7_Witness == Len(waiters) >= 2 /\ retryPromise # 0

\* C8: a send call made while disconnected makes its one transmit attempt at
\* the next open event, and no send call ever makes a second attempt, also
\* when the attempt failed. While a send call waits, the Socket is not
\* connected and a connection attempt or a retry is still to come.
C8_TransmitOnce ==
  /\ [](\A id \in SendIds :
           /\ attempts[id] <= 1
           /\ id <= nsend => (attempts[id] = 0 <=> id \in WaitingIds)
           /\ id \in lost => attempts[id] = 1)
  /\ [](waiters # <<>> =>
           /\ ~IsOpen(ws)
           /\ timers > 0 \/ \E w \in Sockets : ws[w] \in {"CONNECTING", "CLOSING"})
  /\ [][(\E w \in Sockets : ws[w] = "CONNECTING" /\ ws'[w] = "OPEN") =>
          waiters' = <<>>]_vars

\* a send call made while disconnected was released and its transmit failed
C8_Witness == \E id \in lost : attempts[id] = 1 /\ id \notin WaitingIds

\* the step is the receipt of a claim of name n by connection c
ClaimStep(c, n) == nreq' = nreq + 1 /\ lastReq' = [conn |-> c, name |-> n]

\* the last step sent connection c a frame of that type
HasEvent(c, type) == \E k \in DOMAIN sent : sent[k].to = c /\ sent[k].ev.type = type

\* C9: no two live connections are bound to the same user name, and a claim
\* of a name that another live connection holds binds nothing, also while
\* the holder's own claim is still being processed.
C9_UniqueLiveNames ==
  /\ [](\A c, d \in clients :
          (c # d /\ connName[c] # Undefined) => connName[c] # connName[d])
  /\ [][\A c \in Conns, n \in ClaimNames :
          (ClaimStep(c, n) /\ \E d \in clients \ {c} : connName[d] = n) =>
             /\ connName' = connName
             /\ tasks' = tasks
             /\ sent' = <<[to |-> c, ev |-> [type |-> "invalid-username"]]>>]_vars

\* a second connection claimed the name while the holder's claim was still
\* being processed, and was refused
C9_Witness ==
  \E c \in clients : \E k \in DOMAIN tasks :
     /\ tasks[k].type = "username" /\ tasks[k].conn = c
     /\ lastReq.conn \in clients \ {c}
     /\ lastReq.name = connName[c]
     /\ connName[lastReq.conn] # connName[c]
     /\ HasEvent(lastReq.conn, "invalid-username")

\* C10: a claim of a valid name that no live connection holds succeeds: the
\* claimer is bound to the name and gets no refusal, whether or not the store
\* has a record of the name and whoever held the name before.
C10_ReclaimAfterClose ==
  [][\A c \in Conns, n \in ClaimNames :
       (ClaimStep(c, n) /\ isValidUsername(n)
          /\ ~\E d \in clients : connName[d] = n) =>
            /\ connName'[c] = n
            /\ sent' = <<>>
            /\ Len(tasks') = Len(tasks) + 1
            /\ tasks'[Len(tasks')].conn = c]_vars

\* the holder of a stored name has closed and another connection now has it
C10_Witness ==
  \E c, d \in Conns :
     /\ conn[c] = "CLOSED" /\ d \in clients
     /\ connName[c] # Undefined /\ connName[d] = connName[c]
     /\ FindUser(dbUsers, connName[d], 1) # 0
     /\ HasEvent(d, "logged-in")

\* the step is the close event of connection c
CloseStep(c) == conn[c] \in {"OPEN", "CLOSING"} /\ conn'[c] = "CLOSED" /\ tasks' = tasks

\* the step ran the suspended handler i: it moved on, or it ended
Acted(i) ==
  /\ i \in DOMAIN tasks
  /\ \/ Len(tasks') = Len(tasks) /\ tasks'[i] # tasks[i]
     \/ /\ Len(tasks') = Len(tasks) - 1
        /\ tasks' = [j \in 1..(Len(tasks) - 1) |-> IF j < i THEN tasks[j] ELSE tasks[j + 1]]

StoreUnchanged == dbUsers' = dbUsers /\ dbGroups' = dbGroups /\ dbMessages' = dbMessages

\* C11: a claim of a name with a character outside letters, digits,
\* underscore and space, or of a name another live connection holds, is
\* answered with an error to the requester only; no binding changes, the
\* store is unchanged, no handler is left running and nobody else gets a frame.
C11_RejectedClaim ==
  [][\A c \in Conns, n \in ClaimNames :
       (ClaimStep(c, n)
          /\ ((\E k \in DOMAIN n : n[k] \notin WordChars \cup {" "})
               \/ \E d \in clients \ {c} : connName[d] = n)) =>
            /\ connName' = connName
            /\ StoreUnchanged
            /\ tasks' = tasks
            /\ sent' = <<[to |-> c, ev |-> [type |-> "invalid-username"]]>>]_vars

\* a claim of a name with a forbidden character was refused while another
\* connection was logged in
C11_Witness ==
  /\ lastReq.conn \in clients
  /\ \E k \in DOMAIN lastReq.name : lastReq.name[k] \notin WordChars \cup {" "}
  /\ HasEvent(lastReq.conn, "invalid-username")
  /\ getLoggedInUsers \ {lastReq.conn} # {}

\* C12: a message or group request received from a connection that had
\* claimed no identity changes nothing in the store and sends no event, at
\* any step of its handler.
C12_AnonymousInert ==
  [][\A i \in TaskIds :
       (Acted(i) /\ tasks[i].type # "username" /\ tasks[i].anon) =>
          (StoreUnchanged /\ sent' = <<>>)]_vars

\* C13: the users store holds at most one record for every name.
C13_UniqueUserRecords ==
  \A j, k \in DOMAIN dbUsers :
     (j # k /\ dbUsers[j] # Undefined) => dbUsers[j] # dbUsers[k]

\* the users a message concerns: its sender, its receiving user, the current
\* members of its receiving group
Audience(m) ==
  Usernames({m.sender} \cup (IF m.receivingUser # 0 THEN {m.receivingUser} ELSE {})
            \cup (IF m.receivingGroup \in LiveGroups
                  THEN dbGroups[m.receivingGroup].members ELSE {}))

\* every user record has a name: no request of an anonymous connection has
\* created a record
AllNamed == \A u \in DOMAIN dbUsers : dbUsers[u] # Undefined

\* C14: a receive-message or remove-message event goes only to connections
\* bound to the sender of the message, to its receiving user or to a current
\* member of its receiving group. Stated for the stores without a nameless
\* user record, so that the senders are connections that had claimed a name.
C14_EventAudience ==
  [][\A k \in DOMAIN sent' :
       (sent'[k].ev.type \in {"receive-message", "remove-message"}
          /\ sent'[k].ev.id \in LiveMessages /\ AllNamed) =>
            connName[sent'[k].to] \in Audience(dbMessages[sent'[k].ev.id])]_vars

\* the name is the sender of m, its receiving user, or a member of its
\* receiving group in the groups store after the step
Concerns(m, name) ==
  \/ m.sender \in DOMAIN dbUsers /\ dbUsers[m.sender] = name
  \/ m.receivingUser \in DOMAIN dbUsers /\ dbUsers[m.receivingUser] = name
  \/ /\ m.receivingGroup \in DOMAIN dbGroups'
     /\ dbGroups'[m.receivingGroup].live
     /\ name \in Usernames(dbGroups'[m.receivingGroup].members)

\* C15: the history of a logged-in reply holds only messages the claimed
\* user sent, received, or that are addressed to a group the user is a member
\* of when the reply is sent.
C15_HistoryAudience ==
  [][\A k \in DOMAIN sent' :
       sent'[k].ev.type = "logged-in" =>
          \A h \in DOMAIN sent'[k].ev.history :
             Concerns(sent'[k].ev.history[h], sent'[k].ev.username)]_vars

\* the user-disconnect frames the step sent to connection d
Disconnects(d) ==
  Len(SelectSeq(sent', LAMBDA f : f.to = d /\ f.ev.type = "user-disconnect"))

\* C16: a close event notifies the logged-in connections once when the
\* closing connection was the last one bound to its user, and not at all when
\* it was anonymous or the user has another live connection; no other step
\* sends a user-disconnect.
C16_OfflineOnLastClose ==
  [][/\ \A c \in Conns : CloseStep(c) =>
          LET last == /\ connName[c] # Undefined
                      /\ ~\E d \in clients \ {c} : connName[d] = connName[c]
          IN \A d \in getLoggedInUsers \ {c} : Disconnects(d) = IF last THEN 1 ELSE 0
     /\ (\E d \in Conns : Disconnects(d) > 0) => \E c \in Conns : CloseStep(c)]_vars

\* C17: in a logged-in reply, a user is flagged online exactly if a live
\* connection is bound to the user when the reply is sent.
C17_SnapshotOnline ==
  [][\A k \in DOMAIN sent' :
       sent'[k].ev.type = "logged-in" =>
          \A u \in sent'[k].ev.users :
             u.online <=> \E d \in Conns : /\ conn'[d] \in {"OPEN", "CLOSING"}
                                           /\ connName'[d] = u.username]_vars

\* C18: every message addressed to a group refers to a group of the store.
C18_GroupOfMessageExists ==
  \A m \in LiveMessages :
     dbMessages[m].receivingGroup # 0 => dbMessages[m].receivingGroup \in LiveGroups

\* C19: when the handler of a delete-group request for an existing group
\* ends, the group is gone and so is every message addressed to it. Stated
\* for the requests of connections that had claimed a name.
C19_DeleteGroupCascade ==
  [][\A i \in TaskIds :
       (Acted(i) /\ tasks[i].type = "delete-group" /\ tasks[i].pc = "dgRemoveMessages"
          /\ ~tasks[i].anon) =>
          /\ ~dbGroups'[tasks[i].gid].live
          /\ \A m \in DOMAIN dbMessages' :
                ~(dbMessages'[m].live /\ dbMessages'[m].receivingGroup = tasks[i].gid)]_vars

\* the step sent connection d a frame of that type
Gets(d, type) == \E k \in DOMAIN sent' : sent'[k].to = d /\ sent'[k].ev.type = type

\* C20: when edit-group writes the group, every logged-in connection of a
\* user of the new member list gets update-group, and every logged-in
\* connection of a user who was a member in the store and is not in the new
\* list gets removed-from-group. Stated for the requests of connections that
\* had claimed a name.
C20_EditGroupNotifies ==
  [][\A i \in TaskIds :
       (Acted(i) /\ tasks[i].type = "edit-group" /\ tasks[i].pc = "groupWrite"
          /\ tasks[i].gid \in LiveGroups /\ ~tasks[i].anon) =>
            \A d \in getLoggedInUsers :
               /\ connName[d] \in Range(tasks[i].names) => Gets(d, "update-group")
               /\ connName[d] \in Usernames(dbGroups[tasks[i].gid].members)
                                     \ Range(tasks[i].names)
                     => Gets(d, "removed-from-group")]_vars

\* C21: when edit-group for the id of a stored group writes, the group with
\* that id gets the new name and members and every other group stays as it
\* was. Stated for the requests of connections that had claimed a name.
C21_EditAddressedGroup ==
  [][\A i \in TaskIds :
       (Acted(i) /\ tasks[i].type = "edit-group" /\ tasks[i].pc = "groupWrite"
          /\ tasks[i].gid \in LiveGroups /\ ~tasks[i].anon) =>
            /\ dbGroups'[tasks[i].gid] = [members |-> tasks[i].ids,
                                           name |-> tasks[i].gname, live |-> TRUE]
            /\ \A g \in DOMAIN dbGroups :
                  g # tasks[i].gid => dbGroups'[g] = dbGroups[g]]_vars

\* the name of the user who sent the stored message m
SenderOf(m) == IF dbMessages[m].sender \in DOMAIN dbUsers
               THEN dbUsers[dbMessages[m].sender] ELSE Undefined

\* C22: no step of the handler of a delete-message request for a stored
\* message, received from a connection bound to another user than the
\* sender of the message, removes the message or sends a remove-message.
C22_OnlySenderDeletes ==
  [][\A i \in TaskIds :
       (Acted(i) /\ tasks[i].type = "delete-message" /\ ~tasks[i].anon
          /\ tasks[i].msg \in LiveMessages
          /\ connName[tasks[i].conn] # SenderOf(tasks[i].msg)) =>
            /\ dbMessages' = dbMessages
            /\ \A k \in DOMAIN sent' : sent'[k].ev.type # "remove-message"]_vars

\* C23: no step of the handler of a delete-group or edit-group request for a
\* stored group, received from a connection whose user is not a member of the
\* group, changes the store or sends a frame to another connection. Stated
\* for the steps that leave every other group as it was.
C23_NonMemberRefused ==
  [][\A i \in TaskIds :
       (Acted(i) /\ tasks[i].type \in {"delete-group", "edit-group"} /\ ~tasks[i].anon
          /\ tasks[i].gid \in LiveGroups
          /\ connName[tasks[i].conn] \notin Usernames(dbGroups[tasks[i].gid].members)
          /\ \A g \in DOMAIN dbGroups : g # tasks[i].gid => dbGroups'[g] = dbGroups[g]) =>
            /\ StoreUnchanged
            /\ \A k \in DOMAIN sent' : sent'[k].to = tasks[i].conn]_vars

\* the handler i is at the lookup of an id that is not in the store
Unknown(i) ==
  \/ /\ tasks[i].type = "delete-message" /\ tasks[i].pc = "dmFind"
     /\ tasks[i].msg \notin LiveMessages
  \/ /\ tasks[i].type = "delete-group" /\ tasks[i].pc = "dgFind"
     /\ tasks[i].gid \notin LiveGroups

\* C24: when the lookup of a delete-message or delete-group request finds no
\* record of the id, the requester is sent an error, the store stays as it
\* was, no other connection is sent a frame and the connections stay up.
\* Stated for the handler that is the only one suspended.
C24_UnknownIdReported ==
  [][(Len(tasks) = 1 /\ Unknown(1) /\ ~tasks[1].anon /\ Acted(1)) =>
        /\ StoreUnchanged
        /\ sent' # <<>>
        /\ \A k \in DOMAIN sent' : sent'[k].to = tasks[1].conn
        /\ conn' = conn]_vars

\* C25: every stored group has a member, and the group a create-group request
\* inserts has the user of the requesting connection among its members.
\* Stated for the requests of connections that had claimed a name.
C25_GroupHasCreator ==
  [][/\ \A g \in DOMAIN dbGroups' : dbGroups'[g].live => dbGroups'[g].members # {}
     /\ \A i \in TaskIds :
          (Acted(i) /\ tasks[i].type = "create-group" /\ tasks[i].pc = "groupWrite"
             /\ ~tasks[i].anon) =>
               connName[tasks[i].conn] \in Usernames(dbGroups'[Len(dbGroups')].members)]_vars

\* C27: a retry timer that fires, or a send call made, while this.socket is
\* OPEN creates no WebSocket, leaves this.socket the current and OPEN one and
\* leaves connectionRetry as it was. The close event of the current socket
\* is not such a step: its handler runs with the socket CLOSED.
C27_OpenSocketKept ==
  [][(IsOpen(ws) /\ ws'[socket] # "CLOSED"
        /\ (timers' < timers \/ nsend' > nsend)) =>
          /\ nws' = nws
          /\ socket' = socket
          /\ ws'[socket] = "OPEN"
          /\ connectionRetry' = connectionRetry]_vars

\* this.socket is OPEN and has been since before the last close event (no
\* socket has opened after it), and the timer that close started has fired;
\* more than one send call was made
C27_Witness == IsOpen(ws) /\ sched # <<>> /\ timers = 0 /\ nsend >= 2

\* C29: the Welcome that logs the client in answers a claim of the cached
\* username.
C29_WelcomeForCachedName ==
  [][(~loggedIn /\ loggedIn') =>
        \E w \in Sockets : \E i \in DOMAIN inflight[w] :
           /\ inflight'[w] = Remove(inflight[w], i)
           /\ inflight[w][i] = RequestUsername(username')]_vars

\* the tag has no white space at either end
Trimmed(t) == t # <<>> /\ t[1] \notin Whitespace /\ t[Len(t)] \notin Whitespace

\* texts with the pieces of v in another order, and with every piece twice
Rearranged(v) ==
  LET p == split(v, Space)
      rev == [k \in DOMAIN p |-> p[Len(p) + 1 - k]]
  IN {join(rev, Space), join(p \o p, Space), join(rev \o p, Space)}

\* the elements of a list
Elements(l) == {l[k] : k \in DOMAIN l}

\* C26: the tags of a tags-changed event are trimmed, non-empty and pairwise
\* distinct; the space-joined tags give the same list again; the same pieces
\* in another order or repeated give the same set of tags.
C26_TagsNormalised ==
  detail # NoDetail =>
     LET t == detail.tags IN
       /\ \A k \in DOMAIN t : Trimmed(t[k])
       /\ \A j, k \in DOMAIN t : j # k => t[j] # t[k]
       /\ Tags(join(t, Space)) = t
       /\ \A v \in Rearranged(detail.from) : Elements(Tags(v)) = Elements(t)

\* the event of a text with a repeated tag, a piece that trim shortens and an
\* empty piece
C26_Witness ==
  /\ detail # NoDetail
  /\ LET p == split(detail.from, Space) IN
       /\ \E j, k \in DOMAIN p : j < k /\ trim(p[j]) # <<>> /\ trim(p[j]) = trim(p[k])
       /\ \E k \in DOMAIN p : trim(p[k]) # p[k]

\* the message is one a server delivers to the user: the user sent it, it is
\* addressed to the user, or to a group
Delivered(m) ==
  m.sender = userId \/ m.recipient = User(userId) \/ m.recipient.kind = "Group"

\* the message is part of the conversation with cr: addressed to the group
\* cr, or a direct message between the own user and the user cr
Belongs(m, cr) ==
  \/ cr.kind = "Group" /\ m.recipient = cr
  \/ /\ cr.kind = "User" /\ m.recipient.kind = "User"
     /\ {m.sender, m.recipient.id} = {userId, cr.id}

\* C28: a delivered message that is appended to the displayed messages is
\* part of the displayed conversation.
C28_ShownInOwnConversation ==
  [][\A m \in Incoming :
       (Delivered(m) /\ currentRecipient' = currentRecipient
          /\ messages' = Append(messages, m)) =>
            Belongs(m, currentRecipient)]_vars

\* C30: after the tag list of a message of the user has dispatched
\* tags-changed, editTags eventually hands Socket.send an EditTags request
\* with the id of the message and the tags of the event.
C30_TagsEditSent ==
  (detail # NoDetail /\ value = detail.from)
     ~> (EditTags(row.id, detail.tags) \in requests)

====
